---- MODULE Spec2Model ----
(***************************************************************************)
(* Model of raghviarya/fuzzy-matching: tagging.py (prompt construction and *)
(* the per-value classification call) and app.py (label loading, the run   *)
(* loop and the session state of the Streamlit script).                    *)
(*                                                                         *)
(* A Python str is a sequence of one-character strings.  Python's None is  *)
(* the value None below.                                                   *)
(***************************************************************************)
EXTENDS Integers, Sequences, FiniteSets, TLC

VARIABLES
    pc,              \* position of the running call / script
    mapping_labels,  \* List[str]
    allow_other,     \* bool
    api_key,         \* str
    service,         \* what the model service answered to the request (unset before)
    content,         \* response.choices[0].message.content
    requests,        \* number of chat.completions.create calls issued by this call
    result,          \* value returned by classify_value (None while none)
    raised,          \* exception that left classify_value (None while none)
    \* build_user_prompt
    cell_value,      \* str
    extra_context,   \* Optional[str]
    column_name,     \* str
    prompt,          \* the returned text (None while none)
    \* app.py, step 1 widgets
    mapping_source,       \* st.radio
    mapping_file,         \* st.file_uploader (mapping)
    mapping_column_name,  \* st.text_input
    mapping_text,         \* st.text_area
    \* app.py, step 2/3 widgets, session state and the locals of the run
    data_file,       \* st.file_uploader (main file)
    target_column,   \* st.text_input
    new_col_name,    \* st.text_input
    run_button,      \* st.button
    tagged_df,       \* st.session_state.tagged_df
    tagging_complete,\* st.session_state.tagging_complete
    df,              \* the dataframe of the run (None while none)
    values,          \* df[target_column].astype(str)
    mapped_tags,     \* list of tags collected so far
    i,               \* rows finished by the loop
    had_error,       \* bool
    calls,           \* the classify_value calls of this run, in the order made
    shown            \* the dataframe displayed and offered for download by this script run

classifyVars == <<mapping_labels, allow_other, api_key, service, content, requests, result, raised>>
promptVars == <<cell_value, extra_context, column_name, prompt>>
widgetVars == <<mapping_source, mapping_file, mapping_column_name, mapping_text>>
appVars == <<data_file, target_column, new_col_name, run_button, tagged_df, tagging_complete,
             df, values, mapped_tags, i, had_error, calls, shown>>
vars == <<pc, classifyVars, promptVars, widgetVars, appVars>>

None == <<"None">>

(***************************************************************************)
(* Bounds of the model.                                                    *)
(***************************************************************************)
MaxLabels == 2      \* longest label list handed to classify_value
MaxPad == 1         \* whitespace tokens around a response body

(***************************************************************************)
(* Strings used as inputs.                                                 *)
(***************************************************************************)
Red == <<"R", "e", "d">>
Blue == <<"B", "l", "u", "e">>
Purple == <<"P", "u", "r", "p", "l", "e">>
Other == <<"O", "t", "h", "e", "r">>
TagKey == <<"t", "a", "g">>
LabelKey == <<"l", "a", "b", "e", "l">>
EmptyStr == <<>>
SomeKey == <<"s", "k">>

\* all sequences over S of length lo..hi
SeqsOf(S, lo, hi) == UNION {[1..n -> S] : n \in lo..hi}

(***************************************************************************)
(* The response text, as the tokens json.loads reads.                      *)
(***************************************************************************)
Tok(k, s) == [k |-> k, s |-> s]
WsTok == Tok("ws", <<" ">>)
LBrace == Tok("lbrace", <<"{">>)
RBrace == Tok("rbrace", <<"}">>)
LBrack == Tok("lbrack", <<"[">>)
RBrack == Tok("rbrack", <<"]">>)
Colon == Tok("colon", <<":">>)
Comma == Tok("comma", <<",">>)
StrTok(s) == Tok("str", s)
NumTok == Tok("num", <<"7">>)
NullTok == Tok("null", <<"n", "u", "l", "l">>)
TrueTok == Tok("true", <<"t", "r", "u", "e">>)
JunkTok == Tok("junk", <<"n", "o", "t">>)

(***************************************************************************)
(* Python values produced by json.loads.                                   *)
(*   t: "none" | "bool" | "num" | "str" | "list" | "dict"                  *)
(*   s: the characters of a str / num;  m: dict items in insertion order;  *)
(*   e: list elements.                                                     *)
(***************************************************************************)
PyVal(t, s, m, e) == [t |-> t, s |-> s, m |-> m, e |-> e]
PyNone == PyVal("none", <<>>, <<>>, <<>>)
PyStr(s) == PyVal("str", s, <<>>, <<>>)

ParseFail == [ok |-> FALSE, v |-> PyNone, n |-> 0]
ParseOk(v, n) == [ok |-> TRUE, v |-> v, n |-> n]

RECURSIVE ParseValue(_, _)
RECURSIVE ParseElems(_, _, _)
RECURSIVE ParseMembers(_, _, _)

\* elements of a JSON array after "[" or ",": value, then "," or "]"
ParseElems(t, p, acc) ==
    LET r == ParseValue(t, p) IN
    IF ~r.ok \/ r.n > Len(t) THEN ParseFail
    ELSE IF t[r.n].k = "comma" THEN ParseElems(t, r.n + 1, Append(acc, r.v))
    ELSE IF t[r.n].k = "rbrack" THEN ParseOk(PyVal("list", <<>>, <<>>, Append(acc, r.v)), r.n + 1)
    ELSE ParseFail

\* members of a JSON object after "{" or ",": string key, ":", value, then "," or "}"
ParseMembers(t, p, acc) ==
    IF p + 1 > Len(t) \/ t[p].k # "str" \/ t[p + 1].k # "colon" THEN ParseFail
    ELSE LET r == ParseValue(t, p + 2)
             item == [key |-> t[p].s, val |-> r.v]
         IN
         IF ~r.ok \/ r.n > Len(t) THEN ParseFail
         ELSE IF t[r.n].k = "comma" THEN ParseMembers(t, r.n + 1, Append(acc, item))
         ELSE IF t[r.n].k = "rbrace" THEN ParseOk(PyVal("dict", <<>>, Append(acc, item), <<>>), r.n + 1)
         ELSE ParseFail

ParseValue(t, p) ==
    IF p > Len(t) THEN ParseFail
    ELSE CASE t[p].k = "str" -> ParseOk(PyStr(t[p].s), p + 1)
           [] t[p].k = "num" -> ParseOk(PyVal("num", t[p].s, <<>>, <<>>), p + 1)
           [] t[p].k = "null" -> ParseOk(PyNone, p + 1)
           [] t[p].k = "true" -> ParseOk(PyVal("bool", t[p].s, <<>>, <<>>), p + 1)
           [] t[p].k = "lbrack" ->
                IF p + 1 <= Len(t) /\ t[p + 1].k = "rbrack"
                THEN ParseOk(PyVal("list", <<>>, <<>>, <<>>), p + 2)
                ELSE ParseElems(t, p + 1, <<>>)
           [] t[p].k = "lbrace" ->
                IF p + 1 <= Len(t) /\ t[p + 1].k = "rbrace"
                THEN ParseOk(PyVal("dict", <<>>, <<>>, <<>>), p + 2)
                ELSE ParseMembers(t, p + 1, <<>>)
           [] OTHER -> ParseFail

IsWs(tok) == tok.k = "ws"

\* str.strip(): drop the leading and the trailing whitespace
RECURSIVE lstrip(_)
lstrip(t) == IF t # <<>> /\ IsWs(Head(t)) THEN lstrip(Tail(t)) ELSE t
RECURSIVE rstrip(_)
rstrip(t) == IF t # <<>> /\ IsWs(t[Len(t)]) THEN rstrip(SubSeq(t, 1, Len(t) - 1)) ELSE t
strip(t) == rstrip(lstrip(t))

\* json.loads: whitespace between tokens is skipped; one value, then end of text.
\* [ok |-> FALSE] stands for the JSONDecodeError.
json_loads(t) ==
    LET toks == SelectSeq(t, LAMBDA x : ~IsWs(x))
        r == ParseValue(toks, 1)
    IN IF r.ok /\ r.n = Len(toks) + 1 THEN [ok |-> TRUE, v |-> r.v] ELSE [ok |-> FALSE, v |-> PyNone]

\* dict.get(key): the value stored last under key, None when the key is absent
RECURSIVE dict_get(_, _)
dict_get(m, key) ==
    IF m = <<>> THEN PyNone
    ELSE IF m[Len(m)].key = key THEN m[Len(m)].val
    ELSE dict_get(SubSeq(m, 1, Len(m) - 1), key)

\* tag in mapping_labels: a list element equal to tag (only a str equals a str)
InLabels(tag, labels) == tag.t = "str" /\ \E j \in 1..Len(labels) : labels[j] = tag.s

\* tag == "Other"
IsOther(tag) == tag.t = "str" /\ tag.s = Other

(***************************************************************************)
(* tagging.py: classify_value                                              *)
(***************************************************************************)
\* _get_client: raises RuntimeError when the key is empty
get_client_raises(key) == key = EmptyStr

\* line 105, negated: the tag is kept
accepted_other_unchecked(tag, labels, allow) == InLabels(tag, labels) \/ IsOther(tag)
accepted_labels_only(tag, labels, allow) == InLabels(tag, labels)
accepted(tag, labels, allow) == InLabels(tag, labels) \/ (allow /\ IsOther(tag))

\* line 107: the default when the model misbehaves
invalid_tag_default_last(labels) == labels[Len(labels)]
invalid_tag_default(labels) == labels[1]

\* line 111: the default when parsing raises
parse_error_default_first(labels, allow) == labels[1]
parse_error_default(labels, allow) == IF allow THEN Other ELSE labels[1]

ContentNone == <<Tok("None", <<>>)>>
Returned(v) == [raised |-> None, ret |-> v]
Raised(e) == [raised |-> e, ret |-> None]

\* lines 100-111, on the content of the response
handle_response(c, labels, allow) ==
    IF c = ContentNone THEN Raised(<<"AttributeError">>)      \* None.strip(), outside the try
    ELSE LET parsed == json_loads(strip(c)) IN
         IF ~parsed.ok THEN Returned(parse_error_default(labels, allow))
         ELSE IF parsed.v.t # "dict" THEN Returned(parse_error_default(labels, allow))   \* no .get
         ELSE LET tag == dict_get(parsed.v.m, TagKey) IN
              IF ~accepted(tag, labels, allow) THEN Returned(invalid_tag_default(labels))
              ELSE Returned(tag.s)

(***************************************************************************)
(* What the model service can answer.                                      *)
(***************************************************************************)
TagValues == {<<StrTok(Red)>>, <<StrTok(Other)>>, <<StrTok(Purple)>>,
              <<NullTok>>, <<NumTok>>, <<LBrack, RBrack>>}
Keys == {TagKey, LabelKey}
Members == [key : Keys, val : TagValues]
ObjectMembers == SeqsOf(Members, 0, 2)
MalformedBodies == {<<>>, <<JunkTok>>, <<JunkTok, JunkTok>>, <<LBrace>>,
                    <<LBrace, StrTok(TagKey), Colon, StrTok(Red)>>,
                    <<LBrace, StrTok(TagKey), StrTok(Red), RBrace>>,
                    <<LBrace, StrTok(TagKey), Colon, StrTok(Red), RBrace, RBrace>>,
                    <<LBrace, StrTok(TagKey), Colon, StrTok(Red), Comma, RBrace>>,
                    <<LBrack, NumTok>>, <<StrTok(Red), StrTok(Red)>>}
NonObjectBodies == {<<StrTok(Red)>>, <<StrTok(Other)>>, <<NumTok>>, <<NullTok>>, <<TrueTok>>,
                    <<LBrack, RBrack>>, <<LBrack, StrTok(Red), RBrack>>,
                    <<LBrack, LBrace, StrTok(TagKey), Colon, StrTok(Red), RBrace, Comma, NumTok, RBrack>>}

RECURSIVE JoinMembers(_)
JoinMembers(ms) ==
    IF ms = <<>> THEN <<>>
    ELSE <<StrTok(Head(ms).key), Colon>> \o Head(ms).val
         \o (IF Len(ms) > 1 THEN <<Comma>> ELSE <<>>) \o JoinMembers(Tail(ms))
ObjectBody(ms) == <<LBrace>> \o JoinMembers(ms) \o <<RBrace>>

Pad(n) == [j \in 1..n |-> WsTok]
Answer(kind, ms, body, l, r) == [kind |-> kind, members |-> ms, body |-> body, lpad |-> l, rpad |-> r]
Unset == Answer("unset", <<>>, <<>>, 0, 0)
ServiceAnswers ==
    {Answer("object", ms, ObjectBody(ms), l, r) : ms \in ObjectMembers, l \in 0..MaxPad, r \in 0..MaxPad}
    \cup {Answer("malformed", <<>>, b, l, r) : b \in MalformedBodies, l \in 0..MaxPad, r \in 0..MaxPad}
    \cup {Answer("nonobject", <<>>, b, l, r) : b \in NonObjectBodies, l \in 0..MaxPad, r \in 0..MaxPad}
    \cup {Answer("absent", <<>>, <<>>, 0, 0)}
\* the text the client reads from an answer
ContentOf(a) == IF a.kind = "absent" THEN ContentNone ELSE Pad(a.lpad) \o a.body \o Pad(a.rpad)

(***************************************************************************)
(* Dataframes and uploaded files.  A frame holds its column names in order *)
(* and, per column, the cells in row order.  NaN is the missing cell.      *)
(***************************************************************************)
NaN == <<"NaN">>
Frame(state, columns, data) == [state |-> state, columns |-> columns, data |-> data]
NoFrame == Frame("none", <<>>, <<>>)        \* None / no file uploaded
BadFile == Frame("unreadable", <<>>, <<>>)  \* pd.read_excel raises on it
Excel(columns, data) == Frame("ok", columns, data)

(***************************************************************************)
(* Values of the variables a part of the program does not use.             *)
(***************************************************************************)
NoCall ==
    /\ service = Unset /\ content = ContentNone /\ requests = 0
    /\ result = None /\ raised = None
NoPrompt ==
    /\ cell_value = EmptyStr /\ extra_context = None
    /\ column_name = EmptyStr /\ prompt = None
NoWidgets ==
    /\ mapping_source = "Upload Excel" /\ mapping_file = NoFrame
    /\ mapping_column_name = LabelKey /\ mapping_text = EmptyStr
NoApp ==
    /\ data_file = NoFrame /\ target_column = EmptyStr /\ new_col_name = EmptyStr
    /\ run_button = FALSE /\ tagged_df = NoFrame /\ tagging_complete = FALSE
    /\ df = NoFrame /\ values = <<>> /\ mapped_tags = <<>> /\ i = 0
    /\ had_error = FALSE /\ calls = <<>> /\ shown = NoFrame

LabelStrings == {Red, Blue, Other}

InitClassify ==
    /\ pc = "call"
    /\ mapping_labels \in SeqsOf(LabelStrings, 1, MaxLabels)
    /\ allow_other \in BOOLEAN
    /\ api_key \in {EmptyStr, SomeKey}
    /\ service = Unset
    /\ content = ContentNone
    /\ requests = 0
    /\ result = None
    /\ raised = None
    /\ NoPrompt /\ NoWidgets /\ NoApp

\* line 85, key missing: RuntimeError leaves the call
AuthenticateFails ==
    /\ pc = "call"
    /\ get_client_raises(api_key)
    /\ pc' = "raised"
    /\ raised' = <<"RuntimeError">>
    /\ UNCHANGED <<mapping_labels, allow_other, api_key, service, content, requests, result>>
    /\ UNCHANGED <<promptVars, widgetVars, appVars>>

\* lines 85-88: client made, prompts built
Authenticate ==
    /\ pc = "call"
    /\ ~get_client_raises(api_key)
    /\ pc' = "compose"
    /\ UNCHANGED <<classifyVars, promptVars, widgetVars, appVars>>

\* lines 90-98: the request is sent and answered
Invoke ==
    /\ pc = "compose"
    /\ \E a \in ServiceAnswers :
          /\ service' = a
          /\ content' = ContentOf(a)
    /\ requests' = requests + 1
    /\ pc' = "responded"
    /\ UNCHANGED <<mapping_labels, allow_other, api_key, result, raised>>
    /\ UNCHANGED <<promptVars, widgetVars, appVars>>

\* lines 90-98: the request is sent and the transport or the service fails
InvokeFails ==
    /\ pc = "compose"
    /\ service' = Answer("failure", <<>>, <<>>, 0, 0)
    /\ requests' = requests + 1
    /\ pc' = "raised"
    /\ raised' = <<"ServiceFailure">>
    /\ UNCHANGED <<mapping_labels, allow_other, api_key, content, result>>
    /\ UNCHANGED <<promptVars, widgetVars, appVars>>

\* lines 100-111
HandleResponse ==
    /\ pc = "responded"
    /\ LET out == handle_response(content, mapping_labels, allow_other) IN
          /\ result' = out.ret
          /\ raised' = out.raised
          /\ pc' = IF out.raised = None THEN "returned" ELSE "raised"
    /\ UNCHANGED <<mapping_labels, allow_other, api_key, service, content, requests>>
    /\ UNCHANGED <<promptVars, widgetVars, appVars>>

NextClassify == AuthenticateFails \/ Authenticate \/ Invoke \/ InvokeFails \/ HandleResponse

SpecClassify == InitClassify /\ [][NextClassify]_vars

(***************************************************************************)
(* Properties of classify_value.  The answer the service gave is read from *)
(* the variable service (what was sent), not from the parse of content.    *)
(***************************************************************************)
IsMember(x, labels) == \E j \in 1..Len(labels) : labels[j] = x
HasTag(ms) == \E j \in 1..Len(ms) : ms[j].key = TagKey
\* the value under the last "tag" key of the object
LastTag(ms) == ms[CHOOSE j \in 1..Len(ms) : ms[j].key = TagKey /\ \A h \in (j + 1)..Len(ms) : ms[h].key # TagKey].val
TagIsString(ms) == HasTag(ms) /\ LastTag(ms)[1].k = "str"
TagString(ms) == LastTag(ms)[1].s
TagAccepted(ms, labels, allow) ==
    TagIsString(ms) /\ (IsMember(TagString(ms), labels) \/ (allow /\ TagString(ms) = Other))
\* the object carries a tag and the tag is neither a label nor a permitted "Other"
ValidationFailure == service.kind = "object" /\ HasTag(service.members)
                     /\ ~TagAccepted(service.members, mapping_labels, allow_other)
\* the text is no JSON, is JSON but no object, or is an object without "tag"
ParseFailure == \/ service.kind \in {"malformed", "nonobject"}
                \/ service.kind = "object" /\ ~HasTag(service.members)
ParseFallback == IF allow_other THEN Other ELSE mapping_labels[1]

\* C1 as stated: a response whose tag is neither a label nor a permitted "Other"
\* yields the parse-failure fallback ("Other" if allow_other, else the first label).
C1_ValidationFallsBackLikeParse ==
    (pc = "returned" /\ ValidationFailure) => result = ParseFallback

\* C1 amended: a response whose tag is neither a label nor a permitted "Other"
\* yields the first label of L, whatever allow_other is.
C1_ValidationFallsBackToFirst ==
    (pc = "returned" /\ ValidationFailure) => result = mapping_labels[1]

C1_Witness ==
    /\ pc = "returned" /\ ValidationFailure /\ allow_other
    /\ TagIsString(service.members) /\ TagString(service.members) = Purple
    /\ mapping_labels = <<Red, Blue>> /\ result = Red

\* C2 as stated: a response that is malformed, is not an object or lacks "tag"
\* yields "Other" if allow_other, else the first label.
C2_ParseFailureFallback ==
    (pc = "returned" /\ ParseFailure) => result = ParseFallback

\* C2 amended: malformed JSON and JSON that is not an object yield "Other" if
\* allow_other, else the first label; an object without "tag" yields the first label.
C2_ParseFailureFallbackAmended ==
    /\ (pc = "returned" /\ service.kind \in {"malformed", "nonobject"}) => result = ParseFallback
    /\ (pc = "returned" /\ service.kind = "object" /\ ~HasTag(service.members))
          => result = mapping_labels[1]

C2_Witness ==
    /\ pc = "returned" /\ service.kind = "malformed" /\ service.body = <<JunkTok, JunkTok>>
    /\ allow_other /\ mapping_labels = <<Red, Blue>> /\ result = Other

\* C3: a response of the form {"tag": X} yields X when X is a label, and "Other"
\* when X is "Other" and allow_other is true.
C3_AcceptedTagVerbatim ==
    \A x \in {Red, Other, Purple} :
        (pc = "returned" /\ service.kind = "object"
           /\ service.members = <<[key |-> TagKey, val |-> <<StrTok(x)>>]>>)
        => /\ IsMember(x, mapping_labels) => result = x
           /\ (x = Other /\ allow_other) => result = Other

C3_Witness ==
    /\ pc = "returned" /\ service.kind = "object"
    /\ service.members = <<[key |-> TagKey, val |-> <<StrTok(Other)>>]>>
    /\ allow_other /\ mapping_labels = <<Red, Blue>> /\ result = Other

\* C4: every returned value is a label or "Other", and an "Other" that is no
\* label is returned only when allow_other is true.
C4_ResultIsLabelOrOther ==
    pc = "returned" =>
        /\ IsMember(result, mapping_labels) \/ result = Other
        /\ (result = Other /\ ~IsMember(Other, mapping_labels)) => allow_other

C4_Witness ==
    /\ pc = "returned" /\ ~allow_other /\ service.kind = "object"
    /\ TagIsString(service.members) /\ TagString(service.members) = Other
    /\ mapping_labels = <<Blue, Red>> /\ result = Blue

\* C5: a call sends exactly one request and returns a label for every response
\* body, absent content included; it raises only on an empty credential, and
\* then before any request.
C5_OneRequestNeverRaisesOnResponse ==
    /\ requests <= 1
    /\ pc \in {"responded", "returned"} => requests = 1
    /\ api_key = EmptyStr => requests = 0
    /\ raised = <<"RuntimeError">> => (api_key = EmptyStr /\ requests = 0)
    /\ (service.kind \in {"object", "malformed", "nonobject", "absent"} /\ pc # "responded")
          => (pc = "returned" /\ raised = None /\ result # None)

(***************************************************************************)
(* tagging.py: build_user_prompt                                           *)
(***************************************************************************)
MaxValueLen == 3    \* longest value handed to build_user_prompt

\* tagging.py line 61
ColumnHead ==
    <<"Y", "o", "u", " ", "a", "r", "e", " ", "m", "a", "p", "p", "i", "n",
    "g", " ", "a", " ", "v", "a", "l", "u", "e", " ", "f", "r", "o", "m",
    " ", "c", "o", "l", "u", "m", "n", " ", "'">>

\* tagging.py line 61
ColumnTail ==
    <<"'", ".", "\n">>

\* tagging.py line 52
ContextHead ==
    <<"A", "d", "d", "i", "t", "i", "o", "n", "a", "l", " ", "c", "o", "n",
    "t", "e", "x", "t", " ", "f", "r", "o", "m", " ", "t", "h", "e", " ",
    "u", "s", "e", "r", ":", "\n">>

\* tagging.py line 52
ContextTail ==
    <<"\n", "\n">>

\* tagging.py line 63
ValueHead ==
    <<"V", "a", "l", "u", "e", " ", "t", "o", " ", "c", "l", "a", "s", "s",
    "i", "f", "y", ":", " ">>

\* tagging.py line 63
ValueTail ==
    <<"\n", "\n">>

\* tagging.py line 64
LabelsHead ==
    <<"A", "l", "l", "o", "w", "e", "d", " ", "l", "a", "b", "e", "l", "s",
    ":", " ">>

\* tagging.py line 64
LabelsTail ==
    <<"\n">>

\* tagging.py lines 54-57
OtherAllowedStr ==
    <<"\"", "O", "t", "h", "e", "r", "\"", " ", "i", "s", " ", "a", "l", "l",
    "o", "w", "e", "d", " ", "O", "N", "L", "Y", " ", "a", "s", " ", "a",
    " ", "l", "a", "s", "t", " ", "r", "e", "s", "o", "r", "t", " ", "w",
    "h", "e", "n", " ", "t", "h", "e", "r", "e", " ", "i", "s", " ", "t",
    "r", "u", "l", "y", " ", "n", "o", " ", "s", "e", "m", "a", "n", "t",
    "i", "c", " ", "m", "a", "t", "c", "h", ".", " ", "P", "r", "e", "f",
    "e", "r", " ", "m", "a", "t", "c", "h", "i", "n", "g", " ", "t", "o",
    " ", "t", "h", "e", " ", "c", "l", "o", "s", "e", "s", "t", " ", "l",
    "a", "b", "e", "l", " ", "u", "s", "i", "n", "g", " ", "s", "y", "n",
    "o", "n", "y", "m", "s", ",", " ", "v", "a", "r", "i", "a", "t", "i",
    "o", "n", "s", ",", " ", "o", "r", " ", "r", "e", "l", "a", "t", "e",
    "d", " ", "c", "o", "n", "c", "e", "p", "t", "s", ".">>

\* tagging.py line 59
OtherNotAllowedStr ==
    <<"\"", "O", "t", "h", "e", "r", "\"", " ", "i", "s", " ", "N", "O", "T",
    " ", "a", "l", "l", "o", "w", "e", "d", ".", " ", "Y", "o", "u", " ",
    "m", "u", "s", "t", " ", "c", "h", "o", "o", "s", "e", " ", "o", "n",
    "e", " ", "o", "f", " ", "t", "h", "e", " ", "a", "l", "l", "o", "w",
    "e", "d", " ", "l", "a", "b", "e", "l", "s", ".">>

\* tagging.py line 65
OtherTail ==
    <<"\n", "\n">>

\* tagging.py lines 66-68
Instruction ==
    <<"U", "s", "e", " ", "s", "e", "m", "a", "n", "t", "i", "c", "/", "f",
    "u", "z", "z", "y", " ", "m", "a", "t", "c", "h", "i", "n", "g", " ",
    "t", "o", " ", "f", "i", "n", "d", " ", "t", "h", "e", " ", "b", "e",
    "s", "t", " ", "l", "a", "b", "e", "l", ".", " ", "C", "o", "n", "s",
    "i", "d", "e", "r", " ", "s", "y", "n", "o", "n", "y", "m", "s", ",",
    " ", "r", "e", "l", "a", "t", "e", "d", " ", "t", "e", "r", "m", "s",
    ",", " ", "a", "n", "d", " ", "c", "o", "n", "c", "e", "p", "t", "u",
    "a", "l", " ", "r", "e", "l", "a", "t", "i", "o", "n", "s", "h", "i",
    "p", "s", ".", " ", "R", "e", "t", "u", "r", "n", " ", "a", " ", "J",
    "S", "O", "N", " ", "o", "b", "j", "e", "c", "t", ",", " ", "e", ".",
    "g", ".", " ", "{", "{", "\"", "t", "a", "g", "\"", ":", " ", "\"", ".",
    ".", ".", "\"", "}", "}", " ", "w", "i", "t", "h", " ", "O", "N", "L",
    "Y", " ", "o", "n", "e", " ", "o", "f", " ", "t", "h", "e", " ", "a",
    "l", "l", "o", "w", "e", "d", " ", "l", "a", "b", "e", "l", "s", " ",
    "(", "o", "r", " ", "'", "O", "t", "h", "e", "r", "'", " ", "o", "n",
    "l", "y", " ", "i", "f", " ", "t", "r", "u", "l", "y", " ", "n", "o",
    " ", "m", "a", "t", "c", "h", " ", "e", "x", "i", "s", "t", "s", ")",
    ".">>

HasChar(s, c) == \E j \in 1..Len(s) : s[j] = c

RECURSIVE Flatten(_)
Flatten(ss) == IF ss = <<>> THEN <<>> ELSE Head(ss) \o Flatten(Tail(ss))

\* repr(str): quoted with ', or with " when the text holds ' and no "; the
\* backslash and the quote in use are backslash-escaped, control characters
\* are written as their escapes.
py_repr_truncated(s) == LET cut == SubSeq(s, 1, IF Len(s) > 2 THEN 2 ELSE Len(s)) IN <<"'">> \o cut \o <<"'">>
py_repr(s) ==
    LET quote == IF HasChar(s, "'") /\ ~HasChar(s, "\"") THEN "\"" ELSE "'"
        esc(c) == IF c = "\\" THEN <<"\\", "\\">>
                  ELSE IF c = quote THEN <<"\\", c>>
                  ELSE IF c = "\n" THEN <<"\\", "n">>
                  ELSE IF c = "\t" THEN <<"\\", "t">>
                  ELSE IF c = "\r" THEN <<"\\", "r">>
                  ELSE <<c>>
    IN <<quote>> \o Flatten([j \in 1..Len(s) |-> esc(s[j])]) \o <<quote>>

\* str(list of str): the reprs of the elements between brackets
list_repr(labels) ==
    <<"[">> \o Flatten([j \in 1..Len(labels) |->
                          (IF j > 1 THEN <<",", " ">> ELSE <<>>) \o py_repr(labels[j])])
    \o <<"]">>

build_user_prompt(value, context, column, labels, allow) ==
    LET context_str == IF context # None /\ context # EmptyStr
                       THEN ContextHead \o context \o ContextTail ELSE <<>>
        other_str == IF allow THEN OtherAllowedStr ELSE OtherNotAllowedStr
    IN ColumnHead \o column \o ColumnTail
       \o context_str
       \o ValueHead \o py_repr(value) \o ValueTail
       \o LabelsHead \o list_repr(labels) \o LabelsTail
       \o other_str \o OtherTail
       \o Instruction

ValueChars == {"a", "'", "\"", "\\", "\n"}
Colours == <<"c", "o", "l">>
SomeContext == <<"h", "u", "e", "s">>

InitPrompt ==
    /\ pc = "build"
    /\ cell_value \in SeqsOf(ValueChars, 0, MaxValueLen)
    /\ extra_context \in {None, EmptyStr, SomeContext}
    /\ column_name = Colours
    /\ mapping_labels = <<Red, Blue>>
    /\ allow_other \in BOOLEAN
    /\ prompt = None
    /\ api_key = SomeKey
    /\ NoCall /\ NoWidgets /\ NoApp

BuildUserPrompt ==
    /\ pc = "build"
    /\ prompt' = build_user_prompt(cell_value, extra_context, column_name, mapping_labels, allow_other)
    /\ pc' = "built"
    /\ UNCHANGED <<cell_value, extra_context, column_name, classifyVars, widgetVars, appVars>>

NextPrompt == BuildUserPrompt

SpecPrompt == InitPrompt /\ [][NextPrompt]_vars

\* hay holds needle as a run of consecutive characters
Contains(hay, needle) ==
    \E k \in 0..(Len(hay) - Len(needle)) : SubSeq(hay, k + 1, k + Len(needle)) = needle

\* C9 as stated: the prompt holds the value exactly as given, character for
\* character.
C9_ValueVerbatim == pc = "built" => Contains(prompt, cell_value)

NeedsNoEscape(s) ==
    /\ ~HasChar(s, "\\") /\ ~HasChar(s, "\n")
    /\ ~(HasChar(s, "'") /\ HasChar(s, "\""))
\* reading a quoted Python literal back: the text between the quotes with each
\* backslash escape replaced by the character it stands for
RECURSIVE Unescape(_)
Unescape(s) ==
    IF s = <<>> THEN <<>>
    ELSE IF Head(s) = "\\" /\ Len(s) > 1
         THEN <<(IF s[2] = "n" THEN "\n" ELSE s[2])>> \o Unescape(Tail(Tail(s)))
         ELSE <<Head(s)>> \o Unescape(Tail(s))
\* the text between "Value to classify: " and the blank line before "Allowed labels: "
ValueField(pr) ==
    LET a == CHOOSE k \in 1..Len(pr) : SubSeq(pr, k, k + Len(ValueHead) - 1) = ValueHead
        from == a + Len(ValueHead)
        b == CHOOSE k \in from..Len(pr) :
                 SubSeq(pr, k, k + Len(ValueTail) + Len(LabelsHead) - 1) = ValueTail \o LabelsHead
    IN SubSeq(pr, from, b - 1)

\* C9 amended: the prompt holds the Python repr of the value: the whole value
\* between quotes, untruncated, with backslash, newline and the delimiting
\* quote backslash-escaped; a value with no backslash, no newline and not both
\* kinds of quote appears character for character between the quotes.
C9_ValueAsRepr ==
    pc = "built" =>
        LET f == ValueField(prompt) IN
        /\ Len(f) >= Len(cell_value) + 2
        /\ f[1] \in {"'", "\""} /\ f[Len(f)] = f[1]
        /\ Unescape(SubSeq(f, 2, Len(f) - 1)) = cell_value
        /\ NeedsNoEscape(cell_value) => SubSeq(f, 2, Len(f) - 1) = cell_value

C9_Witness ==
    /\ pc = "built" /\ cell_value = <<"a", "\\", "\n">>
    /\ ~Contains(prompt, cell_value)
    /\ Contains(prompt, ValueHead \o <<"'", "a", "\\", "\\", "\\", "n", "'">> \o ValueTail)

(***************************************************************************)
(* app.py, step 1: the mapping labels (lines 43-95)                        *)
(***************************************************************************)
MaxCells == 3       \* rows of the mapping file
MaxText == 4        \* characters of the pasted mapping text

IsSpace(c) == c \in {" ", "\n", "\t"}

\* str.strip() on a Python str
RECURSIVE str_lstrip(_)
str_lstrip(s) == IF s # <<>> /\ IsSpace(Head(s)) THEN str_lstrip(Tail(s)) ELSE s
RECURSIVE str_rstrip(_)
str_rstrip(s) == IF s # <<>> /\ IsSpace(s[Len(s)]) THEN str_rstrip(SubSeq(s, 1, Len(s) - 1)) ELSE s
str_strip(s) == str_rstrip(str_lstrip(s))

\* str.splitlines(): the text between line ends; no empty last line
RECURSIVE splitlines(_)
splitlines(s) ==
    IF s = <<>> THEN <<>>
    ELSE IF HasChar(s, "\n")
         THEN LET k == CHOOSE k \in 1..Len(s) : s[k] = "\n" /\ \A h \in 1..(k - 1) : s[h] # "\n"
              IN <<SubSeq(s, 1, k - 1)>> \o splitlines(SubSeq(s, k + 1, Len(s)))
         ELSE <<s>>

\* Series.dropna()
dropna(cells) == SelectSeq(cells, LAMBDA c : c # NaN)

\* Series.unique(): the values in the order of their first appearance
RECURSIVE unique(_)
unique(xs) ==
    IF xs = <<>> THEN <<>>
    ELSE LET init == unique(SubSeq(xs, 1, Len(xs) - 1))
             last == xs[Len(xs)]
         IN IF \E j \in 1..Len(init) : init[j] = last THEN init ELSE Append(init, last)

ColumnIndex(frame, name) == CHOOSE j \in 1..Len(frame.columns) : frame.columns[j] = name
HasColumn(frame, name) == \E j \in 1..Len(frame.columns) : frame.columns[j] = name

\* lines 73-80; astype(str) leaves the text cells of the column as they are
labels_from_column(cells) == unique([j \in 1..Len(dropna(cells)) |-> str_strip(dropna(cells)[j])])

\* lines 64-82
labels_from_file(file, column) ==
    IF file.state # "ok" THEN <<>>                \* no file, or read_excel raised
    ELSE IF ~HasColumn(file, column) THEN <<>>    \* st.warning
    ELSE labels_from_column(file.data[ColumnIndex(file, column)])

\* lines 89-92
labels_from_text(text) ==
    IF str_strip(text) = <<>> THEN <<>>
    ELSE LET lines == splitlines(text)
             kept == SelectSeq(lines, LAMBDA line : str_strip(line) # <<>>)
         IN [j \in 1..Len(kept) |-> str_strip(kept[j])]

\* lines 49-92
load_mapping_labels(source, file, column, text) ==
    IF source = "Upload Excel" THEN labels_from_file(file, column) ELSE labels_from_text(text)

CellValues == {NaN, <<"a">>, <<" ", "a">>, <<"b">>, <<" ">>}
TextChars == {"a", "b", " ", "\n"}
WrongColumn == <<"t", "a", "g", "s">>
MappingFiles == {NoFrame, BadFile} \cup {Excel(<<LabelKey>>, <<cells>>) : cells \in SeqsOf(CellValues, 0, MaxCells)}

InitLabels ==
    /\ pc = "idle"
    /\ NoWidgets
    /\ mapping_labels = <<>>
    /\ allow_other = TRUE
    /\ api_key = SomeKey
    /\ NoCall /\ NoPrompt /\ NoApp

\* a script run with the mapping list uploaded as a file
LoadFromFile ==
    /\ pc = "idle"
    /\ \E file \in MappingFiles, column \in {LabelKey, WrongColumn} :
          /\ mapping_source' = "Upload Excel"
          /\ mapping_file' = file
          /\ mapping_column_name' = column
          /\ mapping_text' = EmptyStr
          /\ mapping_labels' = load_mapping_labels("Upload Excel", file, column, EmptyStr)
    /\ pc' = "labels"
    /\ UNCHANGED <<allow_other, api_key, service, content, requests, result, raised>>
    /\ UNCHANGED <<promptVars, appVars>>

\* a script run with the mapping list pasted as text
LoadFromText ==
    /\ pc = "idle"
    /\ \E text \in SeqsOf(TextChars, 0, MaxText) :
          /\ mapping_source' = "Paste text list"
          /\ mapping_text' = text
          /\ mapping_labels' = load_mapping_labels("Paste text list", NoFrame, LabelKey, text)
    /\ UNCHANGED <<mapping_file, mapping_column_name>>
    /\ pc' = "labels"
    /\ UNCHANGED <<allow_other, api_key, service, content, requests, result, raised>>
    /\ UNCHANGED <<promptVars, appVars>>

NextLabels == LoadFromFile \/ LoadFromText

SpecLabels == InitLabels /\ [][NextLabels]_vars

\* the entries of the source the labels were read from, trimmed
SourceEntries ==
    IF mapping_source = "Upload Excel"
    THEN IF mapping_file.state = "ok" /\ HasColumn(mapping_file, mapping_column_name)
         THEN LET cells == mapping_file.data[ColumnIndex(mapping_file, mapping_column_name)]
                  present == SelectSeq(cells, LAMBDA c : c # NaN)
              IN [j \in 1..Len(present) |-> str_strip(present[j])]
         ELSE <<>>
    ELSE LET lines == splitlines(mapping_text) IN [j \in 1..Len(lines) |-> str_strip(lines[j])]
FirstOccurrence(entries, x) ==
    CHOOSE j \in 1..Len(entries) : entries[j] = x /\ \A h \in 1..(j - 1) : entries[h] # x
Trimmed(s) == s # <<>> /\ ~IsSpace(s[1]) /\ ~IsSpace(s[Len(s)])

\* C8: the label set holds only non-empty trimmed strings, holds no label
\* twice, and lists the labels in the order of their first occurrence in
\* the source (file column or pasted lines).
C8_LabelSetUniqueTrimmedOrdered ==
    /\ \A j \in 1..Len(mapping_labels) : Trimmed(mapping_labels[j])
    /\ \A j, k \in 1..Len(mapping_labels) : j < k => mapping_labels[j] # mapping_labels[k]
    /\ \A j \in 1..Len(mapping_labels) : \E h \in 1..Len(SourceEntries) : SourceEntries[h] = mapping_labels[j]
    /\ \A j, k \in 1..Len(mapping_labels) :
          j < k => FirstOccurrence(SourceEntries, mapping_labels[j]) < FirstOccurrence(SourceEntries, mapping_labels[k])

(***************************************************************************)
(* tagging.py: classify_value as one call, given what the service answers  *)
(***************************************************************************)
classify_value(labels, allow, key, answer) ==
    IF get_client_raises(key) THEN Raised(<<"RuntimeError">>)
    ELSE IF answer.kind = "failure" THEN Raised(<<"ServiceFailure">>)
    ELSE handle_response(ContentOf(answer), labels, allow)

(***************************************************************************)
(* app.py: the script, from a rerun to its end                             *)
(***************************************************************************)
MaxRows == 3        \* rows of the main file

IdCol == <<"i", "d">>
MappedLabel == <<"m", "a", "p", "p", "e", "d", "_", "l", "a", "b", "e", "l">>
Digit(n) == <<"0", "1", "2", "3", "4", "5", "6", "7", "8", "9">>[(n % 10) + 1]
\* the main file: a column to map (its second cell empty) and an id column
Dataset(n) ==
    Excel(<<Colours, IdCol>>,
          <<[j \in 1..n |-> IF j = 2 THEN NaN ELSE <<"v", Digit(j)>>],
            [j \in 1..n |-> <<"i", Digit(j)>>]>>)
DataFiles == {NoFrame, BadFile} \cup {Dataset(n) : n \in 0..MaxRows}

MappingInput(source, file, text) == [source |-> source, file |-> file, text |-> text]
AppMappingInputs ==
    {MappingInput("Paste text list", NoFrame, EmptyStr),
     MappingInput("Paste text list", NoFrame, Red \o <<"\n">> \o Blue),
     MappingInput("Upload Excel", Excel(<<LabelKey>>, <<<<Blue, NaN, Blue>>>>), EmptyStr)}

TagAnswer(x) == Answer("object", <<[key |-> TagKey, val |-> <<StrTok(x)>>]>>,
                       ObjectBody(<<[key |-> TagKey, val |-> <<StrTok(x)>>]>>), 0, 0)
AppAnswers == {TagAnswer(Red), TagAnswer(Blue), TagAnswer(Other), TagAnswer(Purple),
               Answer("malformed", <<>>, <<JunkTok, JunkTok>>, 0, 0),
               Answer("absent", <<>>, <<>>, 0, 0),
               Answer("failure", <<>>, <<>>, 0, 0)}

\* Series.astype(str) on one cell
astype_str(cell) == IF cell = NaN THEN <<"n", "a", "n">> ELSE cell

\* df[name] = cells: an existing column is replaced, a new one is appended
set_column(frame, name, cells) ==
    IF HasColumn(frame, name)
    THEN [frame EXCEPT !.data[ColumnIndex(frame, name)] = cells]
    ELSE [frame EXCEPT !.columns = Append(@, name), !.data = Append(@, cells)]

\* lines 211-228: what the script displays and offers for download
display(complete, frame) == IF complete /\ frame # NoFrame THEN frame ELSE NoFrame

Call(row, value, out) == [row |-> row, value |-> value, raised |-> out.raised, ret |-> out.ret]

InitApp ==
    /\ pc = "idle"
    /\ NoWidgets /\ NoApp
    /\ mapping_labels = <<>>
    /\ allow_other = TRUE
    /\ api_key = SomeKey
    /\ NoCall /\ NoPrompt

\* lines 17-141: a rerun reads the widgets and loads the mapping labels
ScriptStart ==
    /\ pc = "idle"
    /\ \E m \in AppMappingInputs :
          /\ mapping_source' = m.source
          /\ mapping_file' = m.file
          /\ mapping_text' = m.text
          /\ mapping_column_name' = LabelKey
          /\ mapping_labels' = load_mapping_labels(m.source, m.file, LabelKey, m.text)
    /\ data_file' \in DataFiles
    /\ target_column' \in {EmptyStr, Colours, WrongColumn}
    /\ allow_other' \in BOOLEAN
    /\ new_col_name' \in {MappedLabel, Colours}
    /\ run_button' \in BOOLEAN
    /\ pc' = "step3"
    /\ UNCHANGED <<tagged_df, tagging_complete, df, values, mapped_tags, i, had_error, calls, shown>>
    /\ UNCHANGED <<api_key, service, content, requests, result, raised, promptVars>>

UnchangedByRun == <<mapping_labels, allow_other, api_key, service, content, requests, result, raised,
                    promptVars, widgetVars, data_file, target_column, new_col_name, run_button>>

\* line 143 false: the button was not pressed
NoRun ==
    /\ pc = "step3"
    /\ ~run_button
    /\ shown' = display(tagging_complete, tagged_df)
    /\ pc' = "ended"
    /\ UNCHANGED <<tagged_df, tagging_complete, df, values, mapped_tags, i, had_error, calls>>
    /\ UNCHANGED UnchangedByRun

InputMissing == data_file = NoFrame \/ mapping_labels = <<>> \/ target_column = EmptyStr

\* lines 144-149: st.error, the script goes on to the display
RunRejected ==
    /\ pc = "step3"
    /\ run_button
    /\ InputMissing
    /\ shown' = display(tagging_complete, tagged_df)
    /\ pc' = "ended"
    /\ UNCHANGED <<tagged_df, tagging_complete, df, values, mapped_tags, i, had_error, calls>>
    /\ UNCHANGED UnchangedByRun

\* lines 151-155: read_excel raises, st.stop()
RunReadFails ==
    /\ pc = "step3"
    /\ run_button
    /\ ~InputMissing
    /\ data_file.state = "unreadable"
    /\ pc' = "ended"
    /\ UNCHANGED <<tagged_df, tagging_complete, df, values, mapped_tags, i, had_error, calls, shown>>
    /\ UNCHANGED UnchangedByRun

\* lines 157-162: the target column is not in the file, st.stop()
RunColumnMissing ==
    /\ pc = "step3"
    /\ run_button
    /\ ~InputMissing
    /\ data_file.state = "ok"
    /\ ~HasColumn(data_file, target_column)
    /\ df' = data_file
    /\ pc' = "ended"
    /\ UNCHANGED <<tagged_df, tagging_complete, values, mapped_tags, i, had_error, calls, shown>>
    /\ UNCHANGED UnchangedByRun

\* lines 152-175: the file is read and the loop set up
RunStart ==
    /\ pc = "step3"
    /\ run_button
    /\ ~InputMissing
    /\ data_file.state = "ok"
    /\ HasColumn(data_file, target_column)
    /\ df' = data_file
    /\ values' = LET col == data_file.data[ColumnIndex(data_file, target_column)]
                  IN [j \in 1..Len(col) |-> astype_str(col[j])]
    /\ mapped_tags' = <<>>
    /\ i' = 0
    /\ had_error' = FALSE
    /\ pc' = "loop"
    /\ UNCHANGED <<tagged_df, tagging_complete, calls, shown>>
    /\ UNCHANGED UnchangedByRun

\* lines 177-196: the call for the next row returns a tag
ClassifyRowReturns ==
    /\ pc = "loop"
    /\ i < Len(values)
    /\ \E a \in AppAnswers :
          LET out == classify_value(mapping_labels, allow_other, api_key, a) IN
          /\ out.raised = None
          /\ mapped_tags' = Append(mapped_tags, out.ret)
          /\ calls' = Append(calls, Call(i + 1, values[i + 1], out))
    /\ i' = i + 1
    /\ UNCHANGED <<pc, tagged_df, tagging_complete, df, values, had_error, shown>>
    /\ UNCHANGED UnchangedByRun

\* lines 177-191 and 198-199: the call for the next row raises, the loop is
\* left and the script stopped
ClassifyRowRaisesAndGoesOn ==
    /\ pc = "loop"
    /\ i < Len(values)
    /\ \E a \in AppAnswers :
          LET out == classify_value(mapping_labels, allow_other, api_key, a) IN
          /\ out.raised # None
          /\ calls' = Append(calls, Call(i + 1, values[i + 1], out))
    /\ had_error' = TRUE
    /\ i' = i + 1
    /\ UNCHANGED <<pc, tagged_df, tagging_complete, df, values, mapped_tags, shown>>
    /\ UNCHANGED UnchangedByRun
ClassifyRowRaisesAndStoresRows ==
    /\ pc = "loop"
    /\ i < Len(values)
    /\ \E a \in AppAnswers :
          LET out == classify_value(mapping_labels, allow_other, api_key, a) IN
          /\ out.raised # None
          /\ calls' = Append(calls, Call(i + 1, values[i + 1], out))
    /\ had_error' = TRUE
    /\ tagged_df' = df
    /\ tagging_complete' = FALSE
    /\ pc' = "ended"
    /\ UNCHANGED <<df, values, mapped_tags, i, shown>>
    /\ UNCHANGED UnchangedByRun
ClassifyRowRaises ==
    /\ pc = "loop"
    /\ i < Len(values)
    /\ \E a \in AppAnswers :
          LET out == classify_value(mapping_labels, allow_other, api_key, a) IN
          /\ out.raised # None
          /\ calls' = Append(calls, Call(i + 1, values[i + 1], out))
    /\ had_error' = TRUE
    /\ pc' = "ended"
    /\ UNCHANGED <<tagged_df, tagging_complete, df, values, mapped_tags, i, shown>>
    /\ UNCHANGED UnchangedByRun

\* lines 198-228: the loop ended without error; the column is attached, the
\* frame stored in the session and displayed
RunFinish ==
    /\ pc = "loop"
    /\ i = Len(values)
    /\ ~had_error
    /\ df' = set_column(df, new_col_name, mapped_tags)
    /\ tagged_df' = df'
    /\ tagging_complete' = TRUE
    /\ shown' = display(tagging_complete', tagged_df')
    /\ pc' = "ended"
    /\ UNCHANGED <<values, mapped_tags, i, had_error, calls>>
    /\ UNCHANGED UnchangedByRun

\* the script run is over: its widgets' values and its locals are gone, the
\* session state stays
ScriptEnd ==
    /\ pc = "ended"
    /\ pc' = "idle"
    /\ mapping_source' = "Upload Excel" /\ mapping_file' = NoFrame
    /\ mapping_column_name' = LabelKey /\ mapping_text' = EmptyStr
    /\ mapping_labels' = <<>> /\ allow_other' = TRUE
    /\ data_file' = NoFrame /\ target_column' = EmptyStr /\ new_col_name' = EmptyStr
    /\ run_button' = FALSE
    /\ df' = NoFrame /\ values' = <<>> /\ mapped_tags' = <<>> /\ i' = 0
    /\ had_error' = FALSE /\ calls' = <<>> /\ shown' = NoFrame
    /\ UNCHANGED <<tagged_df, tagging_complete>>
    /\ UNCHANGED <<api_key, service, content, requests, result, raised, promptVars>>

Next ==
    \/ ScriptStart
    \/ NoRun
    \/ RunRejected
    \/ RunReadFails
    \/ RunColumnMissing
    \/ RunStart
    \/ ClassifyRowReturns
    \/ ClassifyRowRaises
    \/ RunFinish
    \/ ScriptEnd

Spec == InitApp /\ [][Next]_vars

(***************************************************************************)
(* Properties of the run loop and of the session state.                    *)
(***************************************************************************)
\* the cells of the target column in the uploaded file, as text
SourceValues ==
    LET col == data_file.data[ColumnIndex(data_file, target_column)]
    IN [j \in 1..Len(col) |-> astype_str(col[j])]
LastCallRaised == calls # <<>> /\ calls[Len(calls)].raised # None

C6_CallsInOrderUntilRaise ==
    /\ \A j \in 1..Len(calls) : calls[j].row = j /\ calls[j].value = SourceValues[j]
    /\ \A j \in 1..(Len(calls) - 1) : calls[j].raised = None
    /\ had_error <=> LastCallRaised
    /\ had_error => /\ pc = "ended"
                     /\ df = data_file
                     /\ shown = NoFrame

\* C6: rows are submitted to classify_value one at a time in source order; when
\* the call for a row raises, no later row is submitted, no result column is
\* attached to the dataset and the dataset is not stored in the session.
C6_AbortHaltsRun ==
    /\ [](C6_CallsInOrderUntilRaise)
    /\ [][LastCallRaised => calls' = calls \/ calls' = <<>>]_vars
    /\ [][(had_error' /\ ~had_error) =>
             (tagged_df' = tagged_df /\ tagging_complete' = tagging_complete)]_vars

C6_Witness ==
    /\ had_error /\ Len(calls) = 2 /\ Len(values) > 2
    /\ calls[2].raised = <<"ServiceFailure">>
    /\ Len(mapped_tags) = 1

\* a run of this script classified every row and reached its end
RunCompleted ==
    /\ pc = "ended" /\ run_button /\ ~had_error /\ ~InputMissing
    /\ data_file.state = "ok" /\ HasColumn(data_file, target_column)

\* C7: after a run that classified every row, the tagged dataset is the
\* original columns, unchanged, plus exactly one appended column under the
\* chosen name, whose entries are the classification results in row order.
C7_OneColumnAppended ==
    RunCompleted =>
        /\ tagged_df.columns = Append(data_file.columns, new_col_name)
        /\ \A j \in 1..Len(data_file.columns) : tagged_df.data[j] = data_file.data[j]
        /\ Len(tagged_df.data) = Len(data_file.columns) + 1
        /\ tagged_df.data[Len(tagged_df.data)] = mapped_tags
        /\ Len(mapped_tags) = Len(SourceValues)
        /\ \A j \in 1..Len(mapped_tags) :
              /\ calls[j].row = j /\ calls[j].value = SourceValues[j]
              /\ calls[j].ret = mapped_tags[j]

\* C10: tagged_df and tagging_complete change only in the step that ends a
\* run in which every row was classified; a rejected or aborted run leaves
\* them as they were; tagging_complete never returns to false; whatever a
\* script run displays is the dataset stored by the last completed run.
C10_SessionChangesOnlyOnSuccess ==
    /\ [][(tagged_df' # tagged_df \/ tagging_complete' # tagging_complete) =>
             /\ pc = "loop" /\ i = Len(values) /\ ~had_error /\ ~had_error'
             /\ Len(mapped_tags) = Len(SourceValues)
             /\ \A j \in 1..Len(calls) : calls[j].raised = None
             /\ tagging_complete' /\ tagged_df'.state = "ok"]_vars
    /\ [][tagging_complete => tagging_complete']_vars
    /\ [][(had_error' \/ (pc = "step3" /\ pc' = "ended" /\ df' = NoFrame)) =>
             (tagged_df' = tagged_df /\ tagging_complete' = tagging_complete)]_vars
    /\ [](shown # NoFrame => (tagging_complete /\ shown = tagged_df))

C10_Witness ==
    /\ pc = "ended" /\ had_error /\ tagging_complete
    /\ tagged_df.state = "ok" /\ tagged_df # df

====
